---- MODULE Spec2Model ----
(***************************************************************************)
(* Route optimisation core of backend/app/services/route_optimizer.py:     *)
(* OSRMClient.get_distance with its haversine fallback, the distance       *)
(* matrix builder, the ant colony loop (tour construction, 2-opt, global   *)
(* best, pheromone update), the route assembler and optimize_route.        *)
(*                                                                         *)
(* Numbers.  Distances are kilometres.  The code computes in floating      *)
(* point; the model computes the same expressions exactly: distances are   *)
(* integers and pheromone values are reduced fractions <<num, den>>.       *)
(* Python's None is the empty tuple <<>>; an optional distance d is <<d>>. *)
(***************************************************************************)
EXTENDS Integers, Sequences, FiniteSets, TLC

\* ------------------------------------------------------------------ bounds
MaxStops == 3        \* longest input list of containers
MaxCapacity == 2     \* largest vehicle_capacity
MaxLon == 1          \* stop longitudes are grid points 0..MaxLon
NumAnts == 2         \* ants per iteration      (ACO_NUM_ANTS is 100)
NumIterations == 2   \* iterations of the colony (ACO_NUM_ITERATIONS is 20)
MaxUpdates == 2      \* _update_pheromones calls in a row, taken alone
MaxCost == 2         \* largest tour cost handed to _update_pheromones, taken alone
MaxCalls == 2        \* optimize_route calls made on one RouteOptimizer
MaxCallStops == 2    \* longest input list when several calls are made
TwoOptStops == 3     \* stops of the tours handed to _two_opt, taken alone
MaxNonZero == 4      \* matrix entries other than 0 when _two_opt is taken alone

\* ------------------------------------------------------- program constants
ACO_ALPHA == 1
ACO_BETA == 2
ACO_RHO == <<1, 10>>
ACO_Q == 100
ACO_ELITE_WEIGHT == 2
ACO_INITIAL_PHEROMONE == <<1, 100>>
EARTH_RADIUS_KM == 6371
NO_ROUTE_DISTANCE == 999
METERS_PER_KM == 1000

None == <<>>
Some(x) == <<x>>

\* ------------------------------------------------------ exact fractions
Abs(x) == IF x < 0 THEN -x ELSE x

RECURSIVE GCD(_, _)
GCD(a, b) == IF b = 0 THEN a ELSE GCD(b, a % b)

Rat(n, d) == LET g == GCD(Abs(n), Abs(d)) IN
             IF d < 0 THEN <<(-n) \div g, (-d) \div g>> ELSE <<n \div g, d \div g>>

RatAdd(p, q) == LET l == (p[2] \div GCD(p[2], q[2])) * q[2] IN
                Rat(p[1] * (l \div p[2]) + q[1] * (l \div q[2]), l)

RatMul(p, q) == LET a == Rat(p[1], q[2])
                    b == Rat(q[1], p[2]) IN
                <<a[1] * b[1], a[2] * b[2]>>

RatPositive(p) == p[1] > 0

\* --------------------------------------------------------------- locations
(* A location is a point of the equator; its longitude is measured in      *)
(* units of 1/EARTH_RADIUS_KM radian, and the grid points are 1998 units   *)
(* apart.  The depot is grid point 0.                                      *)
Location(k) == [lat |-> 0, lon |-> 1998 * k]
DEPOT_LOCATION == Location(0)
Locations == {Location(k) : k \in 0..MaxLon}

(* _euclidean_distance.  With lat1 = lat2 = 0 the haversine terms are      *)
(* a = sin(dlon/2)^2 and c = 2*asin(sqrt(a)) = |dlon|; the result is c*r.  *)
CentralAngle(from_point, to_point) == Abs(to_point.lon - from_point.lon)

Haversine(from_point, to_point) ==
    (CentralAngle(from_point, to_point) * EARTH_RADIUS_KM) \div EARTH_RADIUS_KM


\* ------------------------------------------------------- the routing provider
(* What the HTTP exchange of get_distance can produce.                      *)
(*   ok          200, code "Ok", a route with distance (metres) and geometry *)
(*   no_route    200, code not "Ok" or an empty routes list                  *)
(*   conn_error, timeout, http_error                                         *)
(*               requests.get or raise_for_status raises a RequestException  *)
(*   bad_json    200 whose body is not JSON: response.json() raises          *)
(*   incomplete  200, code "Ok", a route without "distance" or "geometry"    *)
ProviderMeters == {1998000}
RequestFailures == {"conn_error", "timeout", "http_error"}
Malformed == {"bad_json", "incomplete"}
Responses ==
    {[kind |-> "ok", meters |-> m] : m \in ProviderMeters}
    \cup {[kind |-> k, meters |-> 0] : k \in {"no_route"} \cup RequestFailures \cup Malformed}

ProviderGeometry(from_point, to_point) ==
    << <<from_point.lon, from_point.lat>>, <<to_point.lon, to_point.lat>> >>

(* An outcome of get_distance: the branch taken ("route", "no_route", the    *)
(* except clause "request_exception", or "uncaught" with the exception that  *)
(* leaves the function) and the returned pair.                               *)
Returned(branch, distance, geometry) ==
    [branch |-> branch, error |-> "", distance |-> distance, geometry |-> geometry]
Uncaught(error) ==
    [branch |-> "uncaught", error |-> error, distance |-> None, geometry |-> None]

(* OSRMClient.get_distance: the set of its outcomes for one response.  Only  *)
(* RequestException is caught.  response.json() on a body that is not JSON   *)
(* raises requests' JSONDecodeError, a RequestException since requests 2.27  *)
(* and a plain ValueError before: either outcome, by the installed version.  *)
(* A KeyError on route["distance"] or route["geometry"] is not caught.       *)
GetDistance(response, from_point, to_point) ==
    CASE response.kind = "ok" ->
            {Returned("route", Some(response.meters \div METERS_PER_KM),
                      ProviderGeometry(from_point, to_point))}
      [] response.kind = "no_route" -> {Returned("no_route", None, None)}
      [] response.kind \in RequestFailures ->
            {Returned("request_exception", Some(Haversine(from_point, to_point)), None)}
      [] response.kind = "bad_json" ->
            {Returned("request_exception", Some(Haversine(from_point, to_point)), None),
             Uncaught("JSONDecodeError")}
      [] response.kind = "incomplete" -> {Uncaught("KeyError")}

\* ------------------------------------------------------------------- state
VARIABLES
    pc,                     \* position in optimize_route / _create_aco_route
    containers,             \* the input list; container_id is the input position
    vehicle_capacity,
    calls,                  \* optimize_route calls made on this RouteOptimizer so far
    requires_multiple_trips,
    trip_count,
    containers_to_route,
    distance_matrix,        \* distance_matrix[i][j], index 0 is the depot
    geometry_cache,         \* the dict: a function on the keys (i, j) present
    bi, bj,                 \* loop indices i, j of _build_distance_matrix
    oracle_calls,           \* every get_distance call so far, in order
    pheromones,
    iteration,
    ant_id,
    iteration_tours,
    global_best_tour,
    global_best_distance,
    recorded_min,           \* history: the least cost recorded at line 491 in this run
    current_idx, unvisited, \* locals of _construct_ant_solution
    tour, distance,         \* the tour under construction, then the ant's (tour, distance)
    path,                   \* local of _two_opt
    route_stops,
    result,                 \* the RouteResult, None until optimize_route returns
    df_vehicle, vehicle_id, \* arguments of extract_routes_for_vehicle
    row,                    \* rows of df_vehicle scanned so far
    routes, current_route   \* locals of extract_routes_for_vehicle

vars == <<pc, containers, vehicle_capacity, calls, requires_multiple_trips, trip_count,
          containers_to_route, distance_matrix, geometry_cache, bi, bj, oracle_calls,
          pheromones, iteration, ant_id, iteration_tours, global_best_tour,
          global_best_distance, recorded_min, current_idx, unvisited, tour, distance, path,
          route_stops, result, df_vehicle, vehicle_id, row, routes, current_route>>

inputVars == <<containers, vehicle_capacity, calls>>
tripVars == <<requires_multiple_trips, trip_count, containers_to_route>>
matrixVars == <<distance_matrix, geometry_cache, bi, bj>>
colonyVars == <<pheromones, iteration, ant_id, iteration_tours, global_best_tour,
                global_best_distance, recorded_min>>
antVars == <<current_idx, unvisited, tour, distance, path>>
outVars == <<route_stops, result>>
extractVars == <<df_vehicle, vehicle_id, row, routes, current_route>>

\* extract_routes_for_vehicle is not running
ExtractIdle ==
    /\ df_vehicle = <<>>
    /\ vehicle_id = 0
    /\ row = 0
    /\ routes = <<>>
    /\ current_route = <<>>

\* ------------------------------------------------------------------ inputs
Container(id, k) ==
    [container_id |-> id, latitude |-> Location(k).lat, longitude |-> Location(k).lon,
     vehicle_type |-> "truck"]

ContainerLists ==
    UNION {{[p \in 1..n |-> Container(p, f[p])] : f \in [1..n -> 0..MaxLon]} : n \in 0..MaxStops}

PointOf(c) == [lat |-> c.latitude, lon |-> c.longitude]

Infinity == [inf |-> TRUE, val |-> 0]
Finite(x) == [inf |-> FALSE, val |-> x]
LessThanMut(a, b) == b.inf \/ a <= b.val
LessThanFiniteMut(a, b) == ~b.inf /\ a < b.val
\* a < b for a finite a and a b that may be float('inf')
LessThan(a, b) == b.inf \/ a < b.val

Init ==
    /\ pc = "call"
    /\ containers \in ContainerLists
    /\ vehicle_capacity \in 1..MaxCapacity
    /\ calls = 1
    /\ requires_multiple_trips = FALSE
    /\ trip_count = 0
    /\ containers_to_route = <<>>
    /\ distance_matrix = <<>>
    /\ geometry_cache = <<>>
    /\ bi = 0 /\ bj = 0
    /\ oracle_calls = <<>>
    /\ pheromones = <<>>
    /\ iteration = 0
    /\ ant_id = 0
    /\ iteration_tours = <<>>
    /\ global_best_tour = None
    /\ global_best_distance = Infinity
    /\ recorded_min = Infinity
    /\ current_idx = 0
    /\ unvisited = <<>>
    /\ tour = <<>>
    /\ distance = 0
    /\ path = <<>>
    /\ route_stops = <<>>
    /\ result = None
    /\ ExtractIdle


\* ----------------------------------------------------------------- helpers
Min(a, b) == IF a < b THEN a ELSE b

RECURSIVE Pow(_, _)
Pow(x, k) == IF k = 0 THEN 1 ELSE x * Pow(x, k - 1)

RECURSIVE SumSeq(_)
SumSeq(s) == IF s = <<>> THEN 0 ELSE s[1] + SumSeq(Tail(s))

Reverse(s) == [k \in 1..Len(s) |-> s[Len(s) + 1 - k]]

RemoveFirstMut(s, x) == Tail(s)
RemoveFirst(s, x) ==
    LET k == CHOOSE q \in 1..Len(s) : s[q] = x /\ \A r \in 1..(q - 1) : s[r] # x
    IN  SubSeq(s, 1, k - 1) \o SubSeq(s, k + 1, Len(s))

\* optimize_route, lines 163-167
RequiresMultipleTrips(n, capacity) == n > capacity
TripCountMut(n, capacity) == n \div capacity
TripCount(n, capacity) == (n + capacity - 1) \div capacity
ContainersToRouteMut(cs, capacity) ==
    SubSeq(cs, Len(cs) - Min(capacity, Len(cs)) + 1, Len(cs))
ContainersToRoute(cs, capacity) == SubSeq(cs, 1, Min(capacity, Len(cs)))
NoContainersMut(cs) == FALSE
NoContainers(cs) == cs = <<>>

\* locations[i] of _build_distance_matrix: the depot first, then the containers
LocationAt(i) == IF i = 0 THEN DEPOT_LOCATION ELSE PointOf(containers_to_route[i])
\* who a matrix index stands for: 0 the depot, else the container_id
StopAt(i) == IF i = 0 THEN 0 ELSE containers_to_route[i].container_id

Zeros(n) == [i \in 0..(n - 1) |-> [j \in 0..(n - 1) |-> 0]]

InitializePheromonesMut(n) ==
    IF calls = 1
    THEN [i \in 0..(n - 1) |-> [j \in 0..(n - 1) |-> ACO_INITIAL_PHEROMONE]]
    ELSE pheromones
\* _initialize_pheromones: np.full((n, n), ACO_INITIAL_PHEROMONE)
InitializePheromones(n) ==
    [i \in 0..(n - 1) |-> [j \in 0..(n - 1) |-> ACO_INITIAL_PHEROMONE]]

(* _select_next_container.  The score of a candidate is                      *)
(* pheromone^ALPHA * (1/distance)^BETA, or 0 when the distance is 0.  Only   *)
(* the sign of a score decides which candidates random.choices can return:   *)
(* when the total is positive, those of positive weight; when every score is *)
(* 0, the weights are uniform and every candidate can be returned.           *)
Tau(current, idx, ph) == <<Pow(ph[current][idx][1], ACO_ALPHA), Pow(ph[current][idx][2], ACO_ALPHA)>>
Eta(current, idx, distances) ==
    IF distances[current][idx] > 0 THEN <<1, Pow(distances[current][idx], ACO_BETA)>>
    ELSE <<0, 1>>
ScorePositive(current, idx, ph, distances) ==
    RatPositive(Tau(current, idx, ph)) /\ RatPositive(Eta(current, idx, distances))
Range(s) == {s[k] : k \in 1..Len(s)}
SelectNextContainerMut(current, unv, ph, distances) == Range(unv)
SelectNextContainer(current, unv, ph, distances) ==
    LET positive == {idx \in Range(unv) : ScorePositive(current, idx, ph, distances)}
    IN  IF positive # {} THEN positive ELSE Range(unv)

\* the closed path [0] + [i + 1 for i in tour] + [0], as a sequence
ClosedPath(t) == <<0>> \o [k \in 1..Len(t) |-> t[k] + 1] \o <<0>>
\* path[1:-1] converted back to container indices
TourOf(pth) == [k \in 1..(Len(pth) - 2) |-> pth[k + 1] - 1]
PathCostMut(pth, matrix) ==
    SumSeq([k \in 1..(Len(pth) - 2) |-> matrix[pth[k]][pth[k + 1]]])
\* sum of matrix[path[k], path[k+1]] along a path
PathCost(pth, matrix) ==
    SumSeq([k \in 1..(Len(pth) - 1) |-> matrix[pth[k]][pth[k + 1]]])

(* _two_opt, one scan.  Positions are Python's: At(pth, i) is path[i].       *)
At(pth, i) == pth[i + 1]
ImprovesMut(pth, matrix, i, j) == FALSE
Improves(pth, matrix, i, j) ==
    matrix[At(pth, i - 1)][At(pth, j)] + matrix[At(pth, i)][At(pth, j + 1)]
        < matrix[At(pth, i - 1)][At(pth, i)] + matrix[At(pth, j)][At(pth, j + 1)]
ImprovingPairs(pth, matrix) ==
    {ij \in (1..(Len(pth) - 3)) \X (2..(Len(pth) - 2)) :
        ij[1] < ij[2] /\ Improves(pth, matrix, ij[1], ij[2])}
FirstImprovingMut(pth, matrix) ==
    CHOOSE ij \in ImprovingPairs(pth, matrix) :
        \A other \in ImprovingPairs(pth, matrix) :
            other[1] < ij[1] \/ (other[1] = ij[1] /\ other[2] <= ij[2])
\* the first improving pair in scan order: i ascending, then j ascending
FirstImproving(pth, matrix) ==
    CHOOSE ij \in ImprovingPairs(pth, matrix) :
        \A other \in ImprovingPairs(pth, matrix) :
            ij[1] < other[1] \/ (ij[1] = other[1] /\ ij[2] <= other[2])
ReverseSegmentMut(pth, i, j) == [pth EXCEPT ![i + 1] = pth[j + 1]]
\* path[i:j+1] = reversed(path[i:j+1])
ReverseSegment(pth, i, j) ==
    SubSeq(pth, 1, i) \o Reverse(SubSeq(pth, i + 1, j + 1)) \o SubSeq(pth, j + 2, Len(pth))

BestOfIterationMut(tours) == tours[1]
\* min(iteration_tours, key=lambda x: x[1]): the first entry of least distance
BestOfIteration(tours) ==
    LET k == CHOOSE q \in 1..Len(tours) :
                /\ \A r \in 1..Len(tours) : tours[q][2] <= tours[r][2]
                /\ \A r \in 1..(q - 1) : tours[r][2] # tours[q][2]
    IN  tours[k]

(* _update_pheromones.                                                       *)
OneMinusRho == RatAdd(<<1, 1>>, <<-ACO_RHO[1], ACO_RHO[2]>>)
EvaporateMut(ph) ==
    [i \in DOMAIN ph |-> [j \in DOMAIN ph[i] |-> RatAdd(ph[i][j], <<-ACO_RHO[1], ACO_RHO[2]>>)]]
Evaporate(ph) ==
    [i \in DOMAIN ph |-> [j \in DOMAIN ph[i] |-> RatMul(OneMinusRho, ph[i][j])]]
TourEdgesMut(tour_indices) ==
    [k \in 1..Len(tour_indices) |->
        <<IF k = 1 THEN 0 ELSE tour_indices[k - 1] + 1, tour_indices[k] + 1>>]
\* the edges of a tour: depot to first, between containers, last to depot
TourEdges(tour_indices) ==
    LET pth == ClosedPath(tour_indices)
    IN  [k \in 1..(Len(pth) - 1) |-> <<pth[k], pth[k + 1]>>]
RECURSIVE Deposit(_, _, _)
Deposit(ph, edges, amount) ==
    IF edges = <<>> THEN ph
    ELSE LET e == edges[1]
         IN  Deposit([ph EXCEPT ![e[1]][e[2]] = RatAdd(@, amount)], Tail(edges), amount)
UpdatePheromonesMut(ph, best_tour, global_best) ==
    LET after_best ==
            IF best_tour[2] > 0
            THEN Deposit(ph, TourEdges(best_tour[1]), Rat(ACO_Q, best_tour[2]))
            ELSE ph
    IN  Evaporate(IF global_best # None /\ global_best[2] > 0
                  THEN Deposit(after_best, TourEdges(global_best[1]),
                               Rat(ACO_ELITE_WEIGHT * ACO_Q, global_best[2]))
                  ELSE after_best)
UpdatePheromonesZeroCostMut(ph, best_tour, global_best) ==
    LET evaporated == Evaporate(ph)
        after_best ==
            Deposit(evaporated, TourEdges(best_tour[1]),
                    Rat(ACO_Q, IF best_tour[2] > 0 THEN best_tour[2] ELSE 1))
    IN  IF global_best # None
        THEN Deposit(after_best, TourEdges(global_best[1]),
                     Rat(ACO_ELITE_WEIGHT * ACO_Q,
                         IF global_best[2] > 0 THEN global_best[2] ELSE 1))
        ELSE after_best
UpdatePheromones(ph, best_tour, global_best) ==
    LET evaporated == Evaporate(ph)
        after_best ==
            IF best_tour[2] > 0
            THEN Deposit(evaporated, TourEdges(best_tour[1]), Rat(ACO_Q, best_tour[2]))
            ELSE evaporated
    IN  IF global_best # None /\ global_best[2] > 0
        THEN Deposit(after_best, TourEdges(global_best[1]),
                     Rat(ACO_ELITE_WEIGHT * ACO_Q, global_best[2]))
        ELSE after_best

\* geometry_cache.get((i, j))
CacheGet(cache, i, j) == IF <<i, j>> \in DOMAIN cache THEN cache[<<i, j>>] ELSE None

(* _create_aco_route, lines 518-547: the RouteStops of a tour.               *)
RECURSIVE Legs(_, _, _)
Legs(tour_indices, prev_idx, matrix) ==
    IF tour_indices = <<>> THEN <<>>
    ELSE <<matrix[prev_idx][tour_indices[1] + 1]>>
            \o Legs(Tail(tour_indices), tour_indices[1] + 1, matrix)
RouteStopsMut(tour_indices, cs, matrix, cache) ==
    LET legs == Legs(tour_indices, 0, matrix)
    IN  [k \in 1..Len(tour_indices) |->
            LET container == cs[tour_indices[k] + 1]
                prev_idx == IF k = 1 THEN 0 ELSE tour_indices[k - 1] + 1
            IN  [container_id |-> container.container_id,
                 latitude |-> container.latitude,
                 longitude |-> container.longitude,
                 distance_from_previous |-> legs[k],
                 cumulative_distance |-> legs[k],
                 order |-> k,
                 geometry_to_here |-> CacheGet(cache, prev_idx, tour_indices[k] + 1)]]
RouteStops(tour_indices, cs, matrix, cache) ==
    LET legs == Legs(tour_indices, 0, matrix)
    IN  [k \in 1..Len(tour_indices) |->
            LET container == cs[tour_indices[k] + 1]
                prev_idx == IF k = 1 THEN 0 ELSE tour_indices[k - 1] + 1
            IN  [container_id |-> container.container_id,
                 latitude |-> container.latitude,
                 longitude |-> container.longitude,
                 distance_from_previous |-> legs[k],
                 cumulative_distance |-> SumSeq(SubSeq(legs, 1, k)),
                 order |-> k,
                 geometry_to_here |-> CacheGet(cache, prev_idx, tour_indices[k] + 1)]]


\* ----------------------------------------------------------------- actions
\* the record of a get_distance call: whose coordinates, and the branch taken
LogCall(src, dst, outcome) ==
    Append(oracle_calls, [src |-> src, dst |-> dst, branch |-> outcome.branch])

(* optimize_route, lines 156-169, up to the call of _build_distance_matrix   *)
(* (lines 453-460 and 212-219).                                              *)
Validate ==
    /\ pc = "call"
    /\ IF NoContainers(containers)
       THEN /\ pc' = "ValueError"
            /\ UNCHANGED <<tripVars, matrixVars, route_stops>>
       ELSE /\ requires_multiple_trips' =
                    RequiresMultipleTrips(Len(containers), vehicle_capacity)
            /\ trip_count' = TripCount(Len(containers), vehicle_capacity)
            /\ containers_to_route' = ContainersToRoute(containers, vehicle_capacity)
            /\ IF containers_to_route' = <<>>
               THEN /\ pc' = "return_leg"          \* _create_aco_route returns []
                    /\ route_stops' = <<>>
                    /\ UNCHANGED matrixVars
               ELSE /\ pc' = "build"
                    /\ distance_matrix' = Zeros(Len(containers_to_route') + 1)
                    /\ geometry_cache' = <<>>
                    /\ bi' = 0 /\ bj' = 0
                    /\ UNCHANGED route_stops
    /\ UNCHANGED <<inputVars, extractVars, oracle_calls, colonyVars, antVars, result>>

\* the loop control of _build_distance_matrix, lines 222-223 and 238-239
NextCell ==
    LET n == Len(containers_to_route) + 1
    IN  IF bj + 1 < n THEN /\ bi' = bi /\ bj' = bj + 1 /\ pc' = "build"
        ELSE IF bi + 1 < n THEN /\ bi' = bi + 1 /\ bj' = 0 /\ pc' = "build"
        ELSE /\ bi' = bi /\ bj' = bj /\ pc' = "init_colony"

\* lines 224-226
BuildDiagonal ==
    /\ pc = "build"
    /\ bi = bj
    /\ distance_matrix' = [distance_matrix EXCEPT ![bi][bj] = 0]
    /\ NextCell
    /\ UNCHANGED <<inputVars, extractVars, tripVars, geometry_cache, oracle_calls, colonyVars,
                   antVars, outVars>>

\* lines 228-236
BuildQuery ==
    /\ pc = "build"
    /\ bi # bj
    /\ \E response \in Responses :
       \E outcome \in GetDistance(response, LocationAt(bi), LocationAt(bj)) :
          /\ oracle_calls' = LogCall(StopAt(bi), StopAt(bj), outcome)
          /\ IF outcome.branch = "uncaught"
             THEN /\ pc' = outcome.error
                  /\ UNCHANGED matrixVars
             ELSE /\ IF outcome.distance # None
                     THEN /\ distance_matrix' =
                                [distance_matrix EXCEPT ![bi][bj] = outcome.distance[1]]
                          /\ geometry_cache' = (<<bi, bj>> :> outcome.geometry) @@ geometry_cache
                     ELSE /\ distance_matrix' =
                                [distance_matrix EXCEPT ![bi][bj] = NO_ROUTE_DISTANCE]
                          /\ UNCHANGED geometry_cache
                  /\ NextCell
    /\ UNCHANGED <<inputVars, extractVars, tripVars, colonyVars, antVars, outVars>>

\* _create_aco_route, lines 462-468
InitColony ==
    /\ pc = "init_colony"
    /\ pheromones' = InitializePheromones(Len(containers_to_route) + 1)
    /\ global_best_tour' = None
    /\ global_best_distance' = Infinity
    /\ recorded_min' = Infinity
    /\ iteration' = 0
    /\ pc' = "iteration"
    /\ UNCHANGED <<inputVars, extractVars, tripVars, matrixVars, oracle_calls, ant_id, iteration_tours,
                   antVars, outVars>>

\* lines 470-475: the head of the iteration loop
IterationStart ==
    /\ pc = "iteration"
    /\ IF iteration < NumIterations
       THEN /\ iteration_tours' = <<>>
            /\ ant_id' = 0
            /\ pc' = "ant"
       ELSE /\ pc' = "assemble"
            /\ UNCHANGED <<iteration_tours, ant_id>>
    /\ UNCHANGED <<inputVars, extractVars, tripVars, matrixVars, oracle_calls, pheromones, iteration,
                   global_best_tour, global_best_distance, recorded_min, antVars, outVars>>

\* line 475-476 and _construct_ant_solution, lines 317-321
AntStart ==
    /\ pc = "ant"
    /\ IF ant_id < NumAnts
       THEN /\ current_idx' = 0
            /\ unvisited' = [k \in 1..Len(containers_to_route) |-> k]
            /\ tour' = <<>>
            /\ distance' = 0
            /\ pc' = "construct"
       ELSE /\ pc' = "best"
            /\ UNCHANGED <<current_idx, unvisited, tour, distance>>
    /\ UNCHANGED <<inputVars, extractVars, tripVars, matrixVars, oracle_calls, colonyVars, path, outVars>>

\* _construct_ant_solution, lines 324-329: one turn of the while loop
SelectStep ==
    /\ pc = "construct"
    /\ unvisited # <<>>
    /\ \E next_idx \in SelectNextContainer(current_idx, unvisited, pheromones, distance_matrix) :
          /\ tour' = Append(tour, next_idx - 1)
          /\ distance' = distance + distance_matrix[current_idx][next_idx]
          /\ unvisited' = RemoveFirst(unvisited, next_idx)
          /\ current_idx' = next_idx
    /\ UNCHANGED <<pc, inputVars, extractVars, tripVars, matrixVars, oracle_calls, colonyVars, path, outVars>>

\* lines 331-334, then the entry of _two_opt, lines 412-414
ConstructReturn ==
    /\ pc = "construct"
    /\ unvisited = <<>>
    /\ distance' = distance + distance_matrix[current_idx][0]
    /\ current_idx' = 0                  \* the callee's locals end with the call
    /\ path' = ClosedPath(tour)
    /\ pc' = "two_opt"
    /\ UNCHANGED <<inputVars, extractVars, tripVars, matrixVars, oracle_calls, colonyVars,
                   unvisited, tour, outVars>>

\* _two_opt, lines 415-433: a scan that finds an improving pair and reverses it
TwoOptReverse ==
    /\ pc = "two_opt"
    /\ ImprovingPairs(path, distance_matrix) # {}
    /\ LET ij == FirstImproving(path, distance_matrix)
       IN  path' = ReverseSegment(path, ij[1], ij[2])
    /\ UNCHANGED <<pc, inputVars, extractVars, tripVars, matrixVars, oracle_calls, colonyVars, current_idx,
                   unvisited, tour, distance, outVars>>

(* _two_opt, a scan that finds no improving pair, and line 436; then         *)
(* _create_aco_route, lines 485-491.                                         *)
TwoOptReturn ==
    /\ pc = "two_opt"
    /\ ImprovingPairs(path, distance_matrix) = {}
    /\ LET refined_tour == TourOf(path)
           refined_distance == PathCost(ClosedPath(refined_tour), distance_matrix)
       IN  /\ iteration_tours' = Append(iteration_tours, <<refined_tour, refined_distance>>)
           /\ recorded_min' = IF LessThan(refined_distance, recorded_min)
                              THEN Finite(refined_distance) ELSE recorded_min
    /\ path' = <<>>                      \* the callee's locals end with the call
    /\ ant_id' = ant_id + 1
    /\ pc' = "ant"
    /\ UNCHANGED <<inputVars, extractVars, tripVars, matrixVars, oracle_calls, pheromones, iteration,
                   global_best_tour, global_best_distance, current_idx, unvisited, tour,
                   distance, outVars>>

\* lines 493-501
SelectBest ==
    /\ pc = "best"
    /\ LET best_iter_tour == BestOfIteration(iteration_tours)
       IN  IF LessThan(best_iter_tour[2], global_best_distance)
           THEN /\ global_best_tour' = best_iter_tour
                /\ global_best_distance' = Finite(best_iter_tour[2])
           ELSE UNCHANGED <<global_best_tour, global_best_distance>>
    /\ pc' = "update"
    /\ UNCHANGED <<inputVars, extractVars, tripVars, matrixVars, oracle_calls, pheromones, iteration,
                   ant_id, iteration_tours, recorded_min, antVars, outVars>>

\* lines 503-509
UpdatePheromonesStep ==
    /\ pc = "update"
    /\ pheromones' = UpdatePheromones(pheromones, BestOfIteration(iteration_tours),
                                      global_best_tour)
    /\ iteration' = iteration + 1
    /\ pc' = "iteration"
    /\ UNCHANGED <<inputVars, extractVars, tripVars, matrixVars, oracle_calls, ant_id, iteration_tours,
                   global_best_tour, global_best_distance, recorded_min, antVars, outVars>>

AssembleMut ==
    /\ pc = "assemble"
    /\ route_stops' =
          IF global_best_tour = None THEN <<>>
          ELSE RouteStops(global_best_tour[1], containers_to_route, distance_matrix,
                          geometry_cache)
    /\ geometry_cache' = <<>>
    /\ pc' = "return_leg"
    /\ UNCHANGED <<inputVars, extractVars, tripVars, distance_matrix, bi, bj, oracle_calls, colonyVars,
                   antVars, result>>

\* lines 513-547
Assemble ==
    /\ pc = "assemble"
    /\ route_stops' =
          IF global_best_tour = None THEN <<>>
          ELSE RouteStops(global_best_tour[1], containers_to_route, distance_matrix,
                          geometry_cache)
    /\ pc' = "return_leg"
    /\ UNCHANGED <<inputVars, extractVars, tripVars, matrixVars, oracle_calls, colonyVars, antVars, result>>

\* optimize_route, lines 171-192
RouteResult(total_distance) ==
    [vehicle_type |-> IF containers # <<>> THEN containers[1].vehicle_type ELSE "Unknown",
     total_distance_km |-> total_distance,
     total_containers |-> Len(containers_to_route),
     stops |-> route_stops,
     requires_multiple_trips |-> requires_multiple_trips,
     trip_count |-> trip_count]

ReturnLeg ==
    /\ pc = "return_leg"
    /\ LET total_distance ==
              SumSeq([k \in 1..Len(route_stops) |-> route_stops[k].distance_from_previous])
       IN  IF route_stops = <<>>
           THEN /\ result' = Some(RouteResult(total_distance))
                /\ pc' = "done"
                /\ UNCHANGED oracle_calls
           ELSE LET last_stop == route_stops[Len(route_stops)]
                    from_point == [lat |-> last_stop.latitude, lon |-> last_stop.longitude]
                IN  \E response \in Responses :
                    \E outcome \in GetDistance(response, from_point, DEPOT_LOCATION) :
                       /\ oracle_calls' = LogCall(last_stop.container_id, 0, outcome)
                       /\ IF outcome.branch = "uncaught"
                          THEN /\ pc' = outcome.error
                               /\ UNCHANGED result
                          ELSE /\ pc' = "done"
                               /\ result' = Some(RouteResult(
                                     IF outcome.distance # None
                                     THEN total_distance + outcome.distance[1]
                                     ELSE total_distance))
    /\ UNCHANGED <<inputVars, extractVars, tripVars, matrixVars, colonyVars, antVars, route_stops>>

Next ==
    \/ Validate
    \/ BuildDiagonal
    \/ BuildQuery
    \/ InitColony
    \/ IterationStart
    \/ AntStart
    \/ SelectStep
    \/ ConstructReturn
    \/ TwoOptReverse
    \/ TwoOptReturn
    \/ SelectBest
    \/ UpdatePheromonesStep
    \/ Assemble
    \/ ReturnLeg

Spec == Init /\ [][Next]_vars


\* ------------------------------------------- _update_pheromones taken alone
(* The pheromone matrix of a depot and two stops, updated MaxUpdates times   *)
(* with any iteration-best and all-time-best tours and any costs 0..MaxCost, *)
(* the all-time best never costlier than the iteration best (lines 498-500). *)
UpdateTours == {<<0, 1>>, <<1, 0>>}

InitPheromones ==
    /\ pc = "update_pheromones"
    /\ containers = <<>>
    /\ vehicle_capacity = 1
    /\ calls = 1
    /\ requires_multiple_trips = FALSE
    /\ trip_count = 0
    /\ containers_to_route = <<>>
    /\ distance_matrix = <<>>
    /\ geometry_cache = <<>>
    /\ bi = 0 /\ bj = 0
    /\ oracle_calls = <<>>
    /\ pheromones = InitializePheromones(3)
    /\ iteration = 0
    /\ ant_id = 0
    /\ iteration_tours = <<>>
    /\ global_best_tour = None
    /\ global_best_distance = Infinity
    /\ recorded_min = Infinity
    /\ current_idx = 0
    /\ unvisited = <<>>
    /\ tour = <<>>
    /\ distance = 0
    /\ path = <<>>
    /\ route_stops = <<>>
    /\ result = None
    /\ ExtractIdle

UpdateAlone ==
    /\ pc = "update_pheromones"
    /\ iteration < MaxUpdates
    /\ \E best_tour \in UpdateTours \X (0..MaxCost) :
       \E global_best \in {g \in UpdateTours \X (0..MaxCost) : g[2] <= best_tour[2]} :
          /\ iteration_tours' = <<best_tour>>
          /\ global_best_tour' = global_best
          /\ global_best_distance' = Finite(global_best[2])
          /\ pheromones' = UpdatePheromones(pheromones, best_tour, global_best)
    /\ iteration' = iteration + 1
    /\ UNCHANGED <<pc, inputVars, extractVars, tripVars, matrixVars, oracle_calls, ant_id, recorded_min,
                   antVars, outVars>>

SpecPheromones == InitPheromones /\ [][UpdateAlone]_vars

(* The same, with the calls that pass no all-time best as well: line 378     *)
(* tests global_best_tour before reading its cost.                           *)
UpdateAloneNoBest ==
    /\ pc = "update_pheromones"
    /\ iteration < MaxUpdates
    /\ \E best_tour \in UpdateTours \X (0..MaxCost) :
          /\ iteration_tours' = <<best_tour>>
          /\ global_best_tour' = None
          /\ global_best_distance' = Infinity
          /\ pheromones' = UpdatePheromones(pheromones, best_tour, None)
    /\ iteration' = iteration + 1
    /\ UNCHANGED <<pc, inputVars, extractVars, tripVars, matrixVars, oracle_calls, ant_id, recorded_min,
                   antVars, outVars>>

NextPheromonesNoBest ==
    \/ UpdateAlone
    \/ UpdateAloneNoBest

SpecPheromonesNoBest == InitPheromones /\ [][NextPheromonesNoBest]_vars

\* ------------------------------------- the end of a colony without a best
(* The state at the head of the iteration loop (line 470) once the last      *)
(* iteration is over, when the provider answered every query of the matrix   *)
(* with a route whose "distance" is not finite: response.json() reads 1e999  *)
(* or Infinity as float('inf') and line 102 divides it by 1000.  Every score *)
(* is then 0 (1/inf), so every ant draws its stops uniformly; no 2-opt test  *)
(* inf < inf passes; every recorded cost is inf; line 498 never finds        *)
(* inf < inf, so no all-time best is stored; each update evaporates and      *)
(* deposits Q/inf = 0.                                                       *)
Tours(n) == {t \in [1..n -> 0..(n - 1)] : \A a, b \in 1..n : a # b => t[a] # t[b]}

NonFiniteMatrix(n) ==
    [i \in 0..(n - 1) |-> [j \in 0..(n - 1) |-> IF i = j THEN 0 ELSE Infinity]]

\* the off-diagonal cells in the order lines 222-223 visit them
RECURSIVE Cells(_, _, _)
Cells(n, i, j) ==
    IF i >= n THEN <<>>
    ELSE IF j >= n THEN Cells(n, i + 1, 0)
    ELSE IF i = j THEN Cells(n, i, j + 1)
    ELSE <<<<i, j>>>> \o Cells(n, i, j + 1)

RECURSIVE EvaporateTimes(_, _)
EvaporateTimes(ph, k) == IF k = 0 THEN ph ELSE EvaporateTimes(Evaporate(ph), k - 1)

InitNoBest ==
    /\ pc = "iteration"
    /\ containers \in ContainerLists \ {<<>>}
    /\ vehicle_capacity \in 1..MaxCapacity
    /\ calls = 1
    /\ requires_multiple_trips = RequiresMultipleTrips(Len(containers), vehicle_capacity)
    /\ trip_count = TripCount(Len(containers), vehicle_capacity)
    /\ containers_to_route = ContainersToRoute(containers, vehicle_capacity)
    /\ LET n == Len(containers_to_route) + 1
           cells == Cells(n, 0, 0)
           point(i) == IF i = 0 THEN DEPOT_LOCATION ELSE PointOf(containers_to_route[i])
           stop(i) == IF i = 0 THEN 0 ELSE containers_to_route[i].container_id
       IN  /\ distance_matrix = NonFiniteMatrix(n)
           /\ geometry_cache =
                 [c \in Range(cells) |-> ProviderGeometry(point(c[1]), point(c[2]))]
           /\ bi = n - 1 /\ bj = n - 1
           /\ oracle_calls =
                 [k \in 1..Len(cells) |->
                     [src |-> stop(cells[k][1]), dst |-> stop(cells[k][2]), branch |-> "route"]]
           /\ pheromones = EvaporateTimes(InitializePheromones(n), NumIterations)
           /\ iteration_tours \in [1..NumAnts -> Tours(n - 1) \X {Infinity}]
    /\ iteration = NumIterations
    /\ ant_id = NumAnts
    /\ global_best_tour = None
    /\ global_best_distance = Infinity
    /\ recorded_min = Infinity
    /\ current_idx = 0
    /\ unvisited = <<>>
    /\ tour = iteration_tours[NumAnts][1]
    /\ distance = Infinity
    /\ path = <<>>
    /\ route_stops = <<>>
    /\ result = None
    /\ ExtractIdle

NextNoBest ==
    \/ IterationStart
    \/ Assemble
    \/ ReturnLeg

SpecNoBest == InitNoBest /\ [][NextNoBest]_vars

\* ------------------------------------------------ the square of four points
(* The depot at (0, 0) and the stops (0, 1), (1, 0), (1, 1), in degrees      *)
(* (lat, lon), with every query answered by the except clause of             *)
(* get_distance.  _euclidean_distance gives 111.195 km for the three sides   *)
(* that lie on the equator or on a meridian, 111.178 km for the side at      *)
(* latitude 1, and 157.249 km for both diagonals.  In whole kilometres the   *)
(* short side is the other sides' length or less: both cases are drawn, so   *)
(* that every 2-opt test that the 17 m decide is taken either way.           *)
SquareSide == 111
SquareDiagonal == 157
SquareShortSides == {SquareSide - 1, SquareSide}
SquarePoints == <<[lat |-> 0, lon |-> 1], [lat |-> 1, lon |-> 0], [lat |-> 1, lon |-> 1]>>
SquareContainers ==
    [k \in 1..3 |-> [container_id |-> k, latitude |-> SquarePoints[k].lat,
                     longitude |-> SquarePoints[k].lon, vehicle_type |-> "truck"]]
SquareMatrix(short) ==
    [i \in 0..3 |-> [j \in 0..3 |->
        IF i = j THEN 0
        ELSE IF {i, j} \in {{0, 3}, {1, 2}} THEN SquareDiagonal
        ELSE IF {i, j} = {2, 3} THEN short
        ELSE SquareSide]]

InitSquare ==
    /\ pc = "init_colony"
    /\ containers = SquareContainers
    /\ vehicle_capacity = 3
    /\ calls = 1
    /\ requires_multiple_trips = RequiresMultipleTrips(3, 3)
    /\ trip_count = TripCount(3, 3)
    /\ containers_to_route = ContainersToRoute(SquareContainers, 3)
    /\ distance_matrix \in {SquareMatrix(short) : short \in SquareShortSides}
    /\ geometry_cache = [c \in Range(Cells(4, 0, 0)) |-> None]
    /\ bi = 3 /\ bj = 3
    /\ oracle_calls =
          [k \in 1..12 |-> [src |-> Cells(4, 0, 0)[k][1], dst |-> Cells(4, 0, 0)[k][2],
                            branch |-> "request_exception"]]
    /\ pheromones = <<>>
    /\ iteration = 0
    /\ ant_id = 0
    /\ iteration_tours = <<>>
    /\ global_best_tour = None
    /\ global_best_distance = Infinity
    /\ recorded_min = Infinity
    /\ current_idx = 0
    /\ unvisited = <<>>
    /\ tour = <<>>
    /\ distance = 0
    /\ path = <<>>
    /\ route_stops = <<>>
    /\ result = None
    /\ ExtractIdle

NextSquare ==
    \/ InitColony
    \/ IterationStart
    \/ AntStart
    \/ SelectStep
    \/ ConstructReturn
    \/ TwoOptReverse
    \/ TwoOptReturn
    \/ SelectBest
    \/ UpdatePheromonesStep
    \/ Assemble

SpecSquare == InitSquare /\ [][NextSquare]_vars

\* ------------------------------------------- several calls on one optimizer
(* A RouteOptimizer holds only self.osrm (line 135); optimize_route can be   *)
(* called on it again once a call has returned or raised.  Whatever the      *)
(* earlier call left in a variable is then a value the new call did not      *)
(* write: Stale, or -1 where the variable is a number.  A later call that    *)
(* read a variable before writing it would compute with these.               *)
(* oracle_calls and result are kept per call.                                *)
Stale == <<"stale">>
StaleNumber == 0 - 1

CallInputs == {cs \in ContainerLists : Len(cs) <= MaxCallStops}

InitCalls == Init /\ containers \in CallInputs

CallAgain ==
    /\ pc \in {"done", "ValueError", "KeyError", "JSONDecodeError"}
    /\ calls < MaxCalls
    /\ calls' = calls + 1
    /\ containers' \in CallInputs
    /\ vehicle_capacity' \in 1..MaxCapacity
    /\ pc' = "call"
    /\ oracle_calls' = <<>>
    /\ result' = None
    /\ requires_multiple_trips' = FALSE
    /\ trip_count' = StaleNumber
    /\ containers_to_route' = Stale
    /\ distance_matrix' = Stale /\ geometry_cache' = Stale
    /\ bi' = StaleNumber /\ bj' = StaleNumber
    /\ pheromones' = Stale
    /\ iteration' = StaleNumber /\ ant_id' = StaleNumber
    /\ iteration_tours' = Stale
    /\ global_best_tour' = Stale
    /\ global_best_distance' = Finite(StaleNumber)
    /\ recorded_min' = Finite(StaleNumber)
    /\ current_idx' = StaleNumber
    /\ unvisited' = Stale /\ tour' = Stale /\ path' = Stale
    /\ distance' = StaleNumber
    /\ route_stops' = Stale
    /\ UNCHANGED extractVars

NextCalls ==
    \/ Next
    \/ CallAgain

SpecCalls == InitCalls /\ [][NextCalls]_vars

\* ------------------------------------------------------- _two_opt taken alone
(* The first ant of a colony entering _two_opt with any tour of TwoOptStops  *)
(* stops that all lie at the depot's coordinates.  Each query of the matrix  *)
(* was answered by a request failure (haversine 0), by "no route"            *)
(* (NO_ROUTE_DISTANCE) or by a route of the provider; at most MaxNonZero     *)
(* entries are not 0.  The matrix need not be symmetric.                     *)
TwoOptDistances ==
    {Haversine(DEPOT_LOCATION, DEPOT_LOCATION), NO_ROUTE_DISTANCE}
        \cup {m \div METERS_PER_KM : m \in ProviderMeters}
TwoOptCells == Cells(TwoOptStops + 1, 0, 0)
TwoOptMatrices(n) ==
    LET cells == Range(Cells(n, 0, 0))
        nonzero == {T \in SUBSET cells : Cardinality(T) <= MaxNonZero}
    IN  UNION {{[i \in 0..(n - 1) |-> [j \in 0..(n - 1) |->
                    IF <<i, j>> \in T THEN f[<<i, j>>] ELSE 0]] :
                  f \in [T -> TwoOptDistances \ {0}]} : T \in nonzero}
BranchOf(d) ==
    IF d = NO_ROUTE_DISTANCE THEN "no_route"
    ELSE IF d * METERS_PER_KM \in ProviderMeters THEN "route"
    ELSE "request_exception"

InitTwoOpt ==
    /\ pc = "two_opt"
    /\ containers = [k \in 1..TwoOptStops |-> Container(k, 0)]
    /\ vehicle_capacity = TwoOptStops
    /\ calls = 1
    /\ requires_multiple_trips = RequiresMultipleTrips(TwoOptStops, TwoOptStops)
    /\ trip_count = TripCount(TwoOptStops, TwoOptStops)
    /\ containers_to_route = ContainersToRoute(containers, TwoOptStops)
    /\ distance_matrix \in TwoOptMatrices(TwoOptStops + 1)
    /\ geometry_cache =
          [c \in {q \in Range(TwoOptCells) :
                     BranchOf(distance_matrix[q[1]][q[2]]) # "no_route"} |->
              IF BranchOf(distance_matrix[c[1]][c[2]]) = "route"
              THEN ProviderGeometry(DEPOT_LOCATION, DEPOT_LOCATION) ELSE None]
    /\ bi = TwoOptStops /\ bj = TwoOptStops
    /\ oracle_calls =
          [k \in 1..Len(TwoOptCells) |->
              [src |-> TwoOptCells[k][1], dst |-> TwoOptCells[k][2],
               branch |-> BranchOf(distance_matrix[TwoOptCells[k][1]][TwoOptCells[k][2]])]]
    /\ pheromones = InitializePheromones(TwoOptStops + 1)
    /\ iteration = 0
    /\ ant_id = 0
    /\ iteration_tours = <<>>
    /\ global_best_tour = None
    /\ global_best_distance = Infinity
    /\ recorded_min = Infinity
    /\ current_idx = 0
    /\ unvisited = <<>>
    /\ tour \in Tours(TwoOptStops)
    /\ distance = PathCost(ClosedPath(tour), distance_matrix)
    /\ path = ClosedPath(tour)
    /\ route_stops = <<>>
    /\ result = None
    /\ ExtractIdle

NextTwoOpt ==
    \/ TwoOptReverse
    \/ TwoOptReturn

SpecTwoOpt == InitTwoOpt /\ [][NextTwoOpt]_vars

\* ------------------------- route_extraction: extract_routes_for_vehicle
(* extract_routes_for_vehicle scans the GPS events of one vehicle, which     *)
(* load_gps_data has sorted by timestamp.  A timestamp is a number of        *)
(* seconds; a position lies on the equator, its longitude measured in metres *)
(* of arc, so that calculate_distance is the difference of the longitudes;   *)
(* distances are metres.  The code's description strings are written with    *)
(* Turkish letters ('Kontak Açıldı', 'Kontak Kapandı'); the column           *)
(* 'Açıklama' is the field Aciklama.                                         *)
MaxEvents == 4       \* longest list of GPS events of a vehicle
IGNITION_ON == "Kontak Acildi"
IGNITION_OFF == "Kontak Kapandi"
Descriptions == {IGNITION_ON, IGNITION_OFF, "Hareket"}
MIN_ROUTE_DURATION_MINUTES == 15
MIN_ROUTE_DISTANCE_KM == 5
SECONDS_PER_MINUTE == 60
SECONDS_PER_DAY == 86400
(* Where and when an event is recorded: the seconds since the event before   *)
(* it and the longitude.  A vehicle that stands is heard again soon, at      *)
(* longitude 0; otherwise the event comes a quarter of an hour later, from   *)
(* longitude 4996.                                                           *)
EventFixes == {[gap |-> 450, Boylam |-> 0], [gap |-> 900, Boylam |-> 4996]}

GpsEvent(description, timestamp, boylam) ==
    [timestamp |-> timestamp, Aciklama |-> description, Enlem |-> 0, Boylam |-> boylam]

EventLists(longest) ==
    UNION {{[k \in 1..n |->
                GpsEvent(d[k], SumSeq([x \in 1..k |-> f[x].gap]), f[k].Boylam)] :
                d \in [1..n -> Descriptions], f \in [1..n -> EventFixes]} : n \in 0..longest}

\* utils.calculate_distance for two points of the equator
CalculateDistance(lat1, lon1, lat2, lon2) == Abs(lon2 - lon1)
\* round(total_distance, 2): to the nearest hundredth of a kilometre
RoundHundredths(meters) == ((meters + 5) \div 10) * 10
CalculateRouteDistance(gps_points) ==
    IF Len(gps_points) < 2 THEN 0
    ELSE RoundHundredths(SumSeq([i \in 1..(Len(gps_points) - 1) |->
            CalculateDistance(gps_points[i].lat, gps_points[i].lon,
                              gps_points[i + 1].lat, gps_points[i + 1].lon)]))

\* timestamp.date()
DateOf(timestamp) == timestamp \div SECONDS_PER_DAY
\* lines 64-71
OpenRoute(vid, event) ==
    [vehicle_id |-> vid, start_time |-> event.timestamp, start_lat |-> event.Enlem,
     start_lon |-> event.Boylam, route_date |-> DateOf(event.timestamp), gps_points |-> <<>>]
AfterIgnitionOnMut(current, vid, event) ==
    IF event.Aciklama = IGNITION_ON /\ current = None
    THEN Some(OpenRoute(vid, event)) ELSE current
\* lines 63-71: an ignition-on event replaces whatever route is open
AfterIgnitionOn(current, vid, event) ==
    IF event.Aciklama = IGNITION_ON THEN Some(OpenRoute(vid, event)) ELSE current
\* lines 73-78
GpsPoint(event) == [lat |-> event.Enlem, lon |-> event.Boylam, timestamp |-> event.timestamp]
AppendPoint(current, event) ==
    IF current # None
    THEN Some([current[1] EXCEPT !.gps_points = Append(@, GpsPoint(event))])
    ELSE current
\* lines 81-89
CloseRoute(route, event) ==
    [vehicle_id |-> route.vehicle_id, start_time |-> route.start_time,
     start_lat |-> route.start_lat, start_lon |-> route.start_lon,
     route_date |-> route.route_date, gps_points |-> route.gps_points,
     end_time |-> event.timestamp, end_lat |-> event.Enlem, end_lon |-> event.Boylam,
     duration_minutes |-> (event.timestamp - route.start_time) \div SECONDS_PER_MINUTE,
     total_distance_km |-> CalculateRouteDistance(route.gps_points)]
\* line 91, with the duration in seconds and the distance in metres
LongEnough(route) ==
    /\ route.end_time - route.start_time >= MIN_ROUTE_DURATION_MINUTES * SECONDS_PER_MINUTE
    /\ route.total_distance_km >= MIN_ROUTE_DISTANCE_KM * METERS_PER_KM

InitExtract ==
    /\ pc = "scan"
    /\ containers = <<>>
    /\ vehicle_capacity = 1
    /\ calls = 1
    /\ requires_multiple_trips = FALSE
    /\ trip_count = 0
    /\ containers_to_route = <<>>
    /\ distance_matrix = <<>>
    /\ geometry_cache = <<>>
    /\ bi = 0 /\ bj = 0
    /\ oracle_calls = <<>>
    /\ pheromones = <<>>
    /\ iteration = 0
    /\ ant_id = 0
    /\ iteration_tours = <<>>
    /\ global_best_tour = None
    /\ global_best_distance = Infinity
    /\ recorded_min = Infinity
    /\ current_idx = 0
    /\ unvisited = <<>>
    /\ tour = <<>>
    /\ distance = 0
    /\ path = <<>>
    /\ route_stops = <<>>
    /\ result = None
    /\ df_vehicle \in EventLists(MaxEvents)
    /\ vehicle_id = 1
    /\ row = 0
    /\ routes = <<>>                     \* lines 56-57
    /\ current_route = None

\* lines 59-94: the loop body for the next row
ScanRow ==
    /\ pc = "scan"
    /\ row < Len(df_vehicle)
    /\ LET event == df_vehicle[row + 1]
           open == AppendPoint(AfterIgnitionOn(current_route, vehicle_id, event), event)
       IN  IF event.Aciklama = IGNITION_OFF /\ open # None
           THEN LET closed == CloseRoute(open[1], event)
                IN  /\ routes' = IF LongEnough(closed) THEN Append(routes, closed) ELSE routes
                    /\ current_route' = None
           ELSE /\ routes' = routes
                /\ current_route' = open
    /\ row' = row + 1
    /\ UNCHANGED <<pc, inputVars, tripVars, matrixVars, oracle_calls, colonyVars, antVars,
                   outVars, df_vehicle, vehicle_id>>

\* line 96
ReturnRoutes ==
    /\ pc = "scan"
    /\ row = Len(df_vehicle)
    /\ pc' = "returned"
    /\ UNCHANGED <<inputVars, tripVars, matrixVars, oracle_calls, colonyVars, antVars,
                   outVars, extractVars>>

NextExtract ==
    \/ ScanRow
    \/ ReturnRoutes

SpecExtract == InitExtract /\ [][NextExtract]_vars

\* ------------------------------------------------------------------ claims
Returned_ == result # None
TheResult == result[1]
StopIds(stops) == [k \in 1..Len(stops) |-> stops[k].container_id]
Routed == Min(Len(containers), vehicle_capacity)
BuildDone == pc \notin {"call", "build", "ValueError"}
\* the calls made for the matrix: all but the return leg's
MatrixCalls == {k \in 1..Len(oracle_calls) : k <= Routed * (Routed + 1)}

C2_TwoOptNeverIncreases ==
    (pc \in {"ant", "best"} /\ iteration_tours # <<>>) =>
        PathCost(ClosedPath(iteration_tours[Len(iteration_tours)][1]), distance_matrix)
            <= PathCost(ClosedPath(tour), distance_matrix)

(* C3: every entry of the pheromone matrix is strictly positive, after       *)
(* initialization and after any number of _update_pheromones calls, for any  *)
(* tours and any non-negative tour costs.                                    *)
C3_PheromonesPositive ==
    \A i \in DOMAIN pheromones : \A j \in DOMAIN pheromones[i] :
        RatPositive(pheromones[i][j])

\* after the last update: an entry that was only ever evaporated, and one
\* that holds a deposit
C3_Witness ==
    /\ iteration = MaxUpdates
    /\ \E i \in DOMAIN pheromones : \E j \in DOMAIN pheromones[i] :
          pheromones[i][j] = RatMul(Rat(Pow(9, MaxUpdates), Pow(10, MaxUpdates)),
                                    ACO_INITIAL_PHEROMONE)
    /\ \E i \in DOMAIN pheromones : \E j \in DOMAIN pheromones[i] :
          RatPositive(RatAdd(pheromones[i][j], <<-1, 1>>))

(* C4: requires_multiple_trips is true iff there are more input stops than  *)
(* capacity, and trip_count is ceil(number of input stops / capacity).       *)
C4_TripMetadata ==
    Returned_ =>
        /\ TheResult.requires_multiple_trips <=> (Len(containers) > vehicle_capacity)
        /\ TheResult.trip_count * vehicle_capacity >= Len(containers)
        /\ (TheResult.trip_count - 1) * vehicle_capacity < Len(containers)

C4_Witness ==
    /\ Returned_
    /\ Len(containers) = 3 /\ vehicle_capacity = 2
    /\ TheResult.requires_multiple_trips
    /\ TheResult.trip_count = 2

C6_TotalIsTourCost ==
    Returned_ =>
        TheResult.total_distance_km =
            PathCost(ClosedPath(global_best_tour[1]), distance_matrix)

(* C7 as claimed: when every query of the matrix failed (network failure or  *)
(* no-route answer), every off-diagonal entry is the haversine estimate,     *)
(* every RouteStop has no geometry and the result holds every routed stop    *)
(* once.                                                                     *)
AllMatrixQueriesFailed ==
    /\ BuildDone
    /\ pc \notin {"KeyError", "JSONDecodeError"}
    /\ \A k \in MatrixCalls : oracle_calls[k].branch \in {"request_exception", "no_route"}
C7_AllFailedAllHaversine ==
    AllMatrixQueriesFailed =>
        /\ \A i \in DOMAIN distance_matrix : \A j \in DOMAIN distance_matrix :
              i # j => distance_matrix[i][j] = Haversine(LocationAt(i), LocationAt(j))
        /\ Returned_ =>
              /\ \A k \in 1..Len(TheResult.stops) : TheResult.stops[k].geometry_to_here = None
              /\ {TheResult.stops[k].container_id : k \in 1..Len(TheResult.stops)} = 1..Routed

(* C8 as claimed: a pair the provider answers with "no route" gets the       *)
(* haversine estimate in the matrix and no geometry, like a network failure, *)
(* and the construction goes on.                                             *)
C8_NoRouteIsHaversine ==
    \A k \in MatrixCalls :
        oracle_calls[k].branch = "no_route" =>
            LET i == oracle_calls[k].src
                j == oracle_calls[k].dst
            IN  /\ distance_matrix[i][j] = Haversine(LocationAt(i), LocationAt(j))
                /\ CacheGet(geometry_cache, i, j) = None
                /\ pc \notin {"KeyError", "JSONDecodeError"} \/ k < Len(oracle_calls)

(* C9 as claimed: no failure of the routing query (connection error,         *)
(* timeout, HTTP error, malformed or incomplete body) makes get_distance     *)
(* raise.                                                                    *)
C9_GetDistanceNeverRaises ==
    /\ pc \notin {"KeyError", "JSONDecodeError"}
    /\ \A k \in 1..Len(oracle_calls) : oracle_calls[k].branch # "uncaught"

(* C10: optimize_route with an empty stop list ends in ValueError, returns   *)
(* no RouteResult, and never queries the oracle, builds a matrix or runs the *)
(* colony.                                                                   *)
C10_EmptyListRaises ==
    containers = <<>> =>
        /\ pc \in {"call", "ValueError"}
        /\ result = None
        /\ oracle_calls = <<>>
        /\ distance_matrix = <<>>
        /\ pheromones = <<>>
        /\ iteration_tours = <<>>

C10_Witness == containers = <<>> /\ pc = "ValueError"

(* C11 as claimed: when the colony loop ends without an all-time-best tour   *)
(* (no iteration-best cost was ever below the initial infinite best), the    *)
(* request aborts with an error and no RouteResult is returned.              *)
C11_NoBestAborts ==
    (iteration = NumIterations /\ global_best_tour = None /\ pc \in {"return_leg", "done"})
        => (result = None /\ pc # "done")

(* C12: for the depot (0, 0) and the stops (0, 1), (1, 0), (1, 1) with      *)
(* haversine distances, the tour from which the route is assembled has the   *)
(* least closed-tour cost of the 6 orderings, whatever the ants drew.        *)
C12_SquareOptimal ==
    (pc = "return_leg" /\ containers = SquareContainers) =>
        /\ Len(route_stops) = 3
        /\ \A t \in Tours(3) :
              PathCost(ClosedPath([k \in 1..3 |-> route_stops[k].container_id - 1]),
                       distance_matrix)
                  <= PathCost(ClosedPath(t), distance_matrix)

\* a route assembled after every ant of the run drew the crossing order
\* (0,1), (1,0), (1,1): only the 2-opt pass made the tours optimal
C12_Witness ==
    /\ pc = "return_leg" /\ containers = SquareContainers
    /\ tour = <<0, 1, 2>>
    /\ StopIds(route_stops) \in {<<1, 3, 2>>, <<2, 3, 1>>}

(* C13: the tour from which the RouteStops are assembled is the all-time     *)
(* best: its cost is the least cost of all (tour, cost) pairs recorded for   *)
(* any ant in any iteration of the run.                                      *)
C13_AssembledFromBest ==
    (pc = "return_leg" /\ route_stops # <<>>) =>
        /\ global_best_tour # None
        /\ StopIds(route_stops) =
              [k \in 1..Len(global_best_tour[1]) |->
                  containers_to_route[global_best_tour[1][k] + 1].container_id]
        /\ recorded_min = Finite(global_best_tour[2])
        /\ recorded_min = Finite(PathCost(ClosedPath(global_best_tour[1]), distance_matrix))

\* a route assembled when some ant of the last iteration recorded a costlier
\* tour than the all-time best, which an earlier iteration found
C13_Witness ==
    /\ pc = "return_leg" /\ route_stops # <<>>
    /\ \E k \in 1..Len(iteration_tours) : iteration_tours[k][2] > recorded_min.val
    /\ BestOfIteration(iteration_tours)[2] > global_best_tour[2]

(* C14: every optimize_route call on the same RouteOptimizer starts from a   *)
(* matrix built anew from its own oracle answers, an empty geometry cache,   *)
(* pheromones all at the initial constant and no all-time best: nothing an   *)
(* earlier call wrote is read.                                               *)
C14_FreshPerCall ==
    LET n == Len(containers_to_route) + 1 IN
    /\ pc \in {"build", "init_colony", "iteration"} =>
          containers_to_route = ContainersToRoute(containers, vehicle_capacity)
    /\ (pc = "build" /\ bi = 0 /\ bj = 0) =>
          distance_matrix = Zeros(n) /\ geometry_cache = <<>>
    /\ pc = "init_colony" =>
          /\ Len(oracle_calls) = Len(Cells(n, 0, 0))
          /\ DOMAIN distance_matrix = 0..(n - 1)
          /\ \A i \in 0..(n - 1) : distance_matrix[i][i] = 0
          /\ \A k \in 1..Len(oracle_calls) :
                LET i == Cells(n, 0, 0)[k][1]
                    j == Cells(n, 0, 0)[k][2]
                    branch == oracle_calls[k].branch
                IN  /\ oracle_calls[k].src = StopAt(i) /\ oracle_calls[k].dst = StopAt(j)
                    /\ branch = "route" =>
                          /\ distance_matrix[i][j] * METERS_PER_KM \in ProviderMeters
                          /\ geometry_cache[<<i, j>>] =
                                ProviderGeometry(LocationAt(i), LocationAt(j))
                    /\ branch = "request_exception" =>
                          /\ distance_matrix[i][j] = Haversine(LocationAt(i), LocationAt(j))
                          /\ geometry_cache[<<i, j>>] = None
                    /\ branch = "no_route" =>
                          /\ distance_matrix[i][j] = NO_ROUTE_DISTANCE
                          /\ <<i, j>> \notin DOMAIN geometry_cache
    /\ (pc = "iteration" /\ iteration = 0) =>
          /\ DOMAIN pheromones = 0..(n - 1)
          /\ \A i \in 0..(n - 1) :
                /\ DOMAIN pheromones[i] = 0..(n - 1)
                /\ \A j \in 0..(n - 1) : pheromones[i][j] = ACO_INITIAL_PHEROMONE
          /\ global_best_tour = None
          /\ global_best_distance = Infinity

\* the colony of a second call about to start on two stops, with the
\* earlier call's tours and route not yet overwritten
C14_Witness ==
    /\ calls = 2
    /\ pc = "iteration" /\ iteration = 0
    /\ Len(containers_to_route) = 2
    /\ route_stops = Stale
    /\ iteration_tours = Stale

(* C15 as claimed: for every input tour and every non-negative matrix with  *)
(* a zero diagonal, symmetric or not, _two_opt stops after finitely many     *)
(* reversals and returns a tour that no pair (i, j) improves.                *)
(* The scan is a function of the path, so a pass that stops never has the    *)
(* same path twice: no reversal brings back the path it started from, and    *)
(* the tour it returns is one that no pair improves.                         *)
C15_TwoOptTerminates ==
    [][/\ (pc = "two_opt" /\ pc' = "two_opt") => path' # ClosedPath(tour)
       /\ (pc = "two_opt" /\ pc' = "ant") =>
              ImprovingPairs(ClosedPath(iteration_tours'[Len(iteration_tours')][1]),
                             distance_matrix) = {}]_vars

(* C16: within an iteration the pheromone matrix does not change while the  *)
(* ants construct and refine their tours and the best is selected; it        *)
(* changes exactly once per iteration, in the step that ends the iteration,  *)
(* after the last ant's tour is recorded and the all-time best is updated;   *)
(* and what that step adds to an entry is added to the evaporated value, so  *)
(* the deposits of the step are not themselves evaporated.                   *)
C16_Added(a, b) ==
    RatAdd(pheromones'[a][b],
           RatMul(<<0 - 1, 1>>, RatMul(OneMinusRho, pheromones[a][b])))
C16_Amounts ==
    LET best == BestOfIteration(iteration_tours)
        of_best == IF best[2] > 0 THEN {Rat(ACO_Q, best[2])} ELSE {}
        of_global == IF global_best_tour[2] > 0
                     THEN {Rat(ACO_ELITE_WEIGHT * ACO_Q, global_best_tour[2])} ELSE {}
    IN  {<<0, 1>>} \cup of_best \cup of_global
            \cup {RatAdd(x, y) : x \in of_best, y \in of_global}
C16_UpdateOncePerIteration ==
    [][/\ pc \in {"iteration", "ant", "construct", "two_opt", "best"} =>
             pheromones' = pheromones
       /\ pc = "update" <=> (pc # "init_colony" /\ iteration' # iteration)
       /\ pc = "update" =>
             /\ Len(iteration_tours) = NumAnts /\ ant_id = NumAnts
             /\ global_best_tour # None
             /\ ~LessThan(BestOfIteration(iteration_tours)[2], global_best_distance)
             /\ iteration' = iteration + 1
             /\ pheromones' # pheromones
             /\ \A a \in DOMAIN pheromones : \A b \in DOMAIN pheromones[a] :
                   C16_Added(a, b) \in C16_Amounts]_vars

\* after the first update of a colony: an entry that was only evaporated and
\* an entry that received a deposit
C16_Witness ==
    /\ pc = "iteration" /\ iteration = 1
    /\ \E a \in DOMAIN pheromones : \E b \in DOMAIN pheromones[a] :
          pheromones[a][b] = RatMul(OneMinusRho, ACO_INITIAL_PHEROMONE)
    /\ \E a \in DOMAIN pheromones : \E b \in DOMAIN pheromones[a] :
          RatPositive(RatAdd(pheromones[a][b], <<0 - 1, 100>>))

(* C17: the all-time-best cost never increases from one iteration to the    *)
(* next: the all-time best is replaced only when the iteration's best cost   *)
(* is strictly lower, and otherwise tour and cost stay as they are; on a tie *)
(* the earlier tour is kept.                                                 *)
C17_BestNeverIncreases ==
    [][IF pc = "best"
       THEN LET best == BestOfIteration(iteration_tours)
            IN  IF global_best_distance.inf \/ best[2] < global_best_distance.val
                THEN /\ global_best_tour' = best
                     /\ global_best_distance' = Finite(best[2])
                ELSE /\ global_best_tour' = global_best_tour
                     /\ global_best_distance' = global_best_distance
                     /\ global_best_distance'.val <= best[2]
       ELSE pc # "init_colony" =>
               /\ global_best_tour' = global_best_tour
               /\ global_best_distance' = global_best_distance]_vars

\* the second iteration's best ties with the all-time best on another tour,
\* and the earlier tour is still the all-time best
C17_Witness ==
    /\ pc = "update" /\ iteration = 1
    /\ BestOfIteration(iteration_tours)[2] = global_best_tour[2]
    /\ BestOfIteration(iteration_tours)[1] # global_best_tour[1]

(* C18: one _update_pheromones call with an iteration-best tour of cost      *)
(* cost_i > 0 and an all-time-best tour of cost cost_g > 0 leaves in every   *)
(* entry (a, b) the value (1 - rho) * old, plus Q / cost_i when (a, b) is an *)
(* edge of the closed path of the iteration best, plus                       *)
(* eliteWeight * Q / cost_g when it is an edge of the closed path of the     *)
(* all-time best: both when the tours are the same, neither off both paths.  *)
C18_OnClosedPath(a, b, t) ==
    \/ a = 0 /\ b = t[1] + 1
    \/ a = t[Len(t)] + 1 /\ b = 0
    \/ \E k \in 1..(Len(t) - 1) : a = t[k] + 1 /\ b = t[k + 1] + 1
C18_ClosedForm(old, a, b, best, global) ==
    RatAdd(RatAdd(RatMul(OneMinusRho, old),
                  IF C18_OnClosedPath(a, b, best[1]) THEN Rat(ACO_Q, best[2]) ELSE <<0, 1>>),
           IF C18_OnClosedPath(a, b, global[1])
           THEN Rat(ACO_ELITE_WEIGHT * ACO_Q, global[2]) ELSE <<0, 1>>)
C18_UpdateClosedForm ==
    [][(iteration_tours'[1][2] > 0 /\ global_best_tour'[2] > 0) =>
          \A a \in DOMAIN pheromones : \A b \in DOMAIN pheromones[a] :
              pheromones'[a][b] =
                  C18_ClosedForm(pheromones[a][b], a, b, iteration_tours'[1], global_best_tour')]_vars

\* after one update with the same tour as iteration best and all-time best:
\* its first edge holds both deposits, an edge off the tour only evaporated
C18_Witness ==
    /\ pc = "update_pheromones" /\ iteration = 1
    /\ iteration_tours[1] = <<<<0, 1>>, 2>> /\ global_best_tour = <<<<0, 1>>, 1>>
    /\ pheromones[0][1] =
          RatAdd(RatMul(OneMinusRho, ACO_INITIAL_PHEROMONE),
                 RatAdd(Rat(ACO_Q, 2), Rat(ACO_ELITE_WEIGHT * ACO_Q, 1)))
    /\ pheromones[1][0] = RatMul(OneMinusRho, ACO_INITIAL_PHEROMONE)

(* C19: every tour of an ant, as _construct_ant_solution produces it and as *)
(* _two_opt returns it, holds each stop index 0..n-1 exactly once and never  *)
(* the depot; the construction takes exactly n selection steps and ends with *)
(* unvisited empty.                                                          *)
C19_IsPermutation(t, n) ==
    /\ Len(t) = n
    /\ \A k \in 1..n : t[k] \in 0..(n - 1)
    /\ \A k, m \in 1..n : k # m => t[k] # t[m]
C19_ToursArePermutations ==
    LET n == Len(containers_to_route) IN
    /\ pc = "construct" =>
          /\ Len(tour) + Len(unvisited) = n
          /\ \A k \in 1..Len(tour) : tour[k] \in 0..(n - 1) /\ tour[k] + 1 \notin Range(unvisited)
          /\ \A k, m \in 1..Len(tour) : k # m => tour[k] # tour[m]
    /\ pc = "two_opt" =>
          /\ unvisited = <<>>
          /\ C19_IsPermutation(tour, n)
          /\ Len(path) = n + 2 /\ path[1] = 0 /\ path[n + 2] = 0
          /\ C19_IsPermutation([k \in 1..n |-> path[k + 1] - 1], n)
    /\ pc \in {"ant", "best", "update"} =>
          \A k \in 1..Len(iteration_tours) : C19_IsPermutation(iteration_tours[k][1], n)

\* an ant whose constructed tour of two stops was reversed by _two_opt
C19_Witness ==
    /\ pc = "ant"
    /\ Len(containers_to_route) = 2
    /\ iteration_tours # <<>>
    /\ tour = <<0, 1>>
    /\ iteration_tours[Len(iteration_tours)][1] = <<1, 0>>

(* C20 as claimed: _build_distance_matrix for the depot and n stops calls    *)
(* the oracle exactly once for every ordered pair (i, j) with i # j, that is *)
(* n * (n + 1) times, never for i = j, sets every diagonal entry to 0, and   *)
(* leaves in matrix[i][j] the distance the oracle returned for the query     *)
(* from i to j.                                                              *)
C20_ReturnedDistances(call, i, j) ==
    CASE call.branch = "route" -> {Some(m \div METERS_PER_KM) : m \in ProviderMeters}
      [] call.branch = "request_exception" -> {Some(Haversine(LocationAt(i), LocationAt(j)))}
      [] call.branch = "no_route" -> {None}
      [] OTHER -> {}
C20_MatrixIsWhatOracleReturned ==
    pc = "init_colony" =>
        LET n == Len(containers_to_route)
            cells == Cells(n + 1, 0, 0)
        IN  /\ Len(oracle_calls) = n * (n + 1)
            /\ \A i, j \in 0..n :
                  Cardinality({k \in 1..Len(oracle_calls) : cells[k] = <<i, j>>})
                      = IF i = j THEN 0 ELSE 1
            /\ \A k \in 1..Len(oracle_calls) :
                  /\ oracle_calls[k].src = StopAt(cells[k][1])
                  /\ oracle_calls[k].dst = StopAt(cells[k][2])
                  /\ Some(distance_matrix[cells[k][1]][cells[k][2]])
                        \in C20_ReturnedDistances(oracle_calls[k], cells[k][1], cells[k][2])
            /\ \A i \in 0..n : distance_matrix[i][i] = 0

(* C21 as claimed: after _build_distance_matrix the geometry cache has an   *)
(* entry for an ordered pair (i, j) only if the routing provider returned a  *)
(* route for that pair; a pair answered by the haversine fallback or by a    *)
(* no-route response has no entry in the cache.                              *)
C21_CacheOnlyForRoutes ==
    pc = "init_colony" =>
        LET cells == Cells(Len(containers_to_route) + 1, 0, 0)
        IN  \A k \in 1..Len(oracle_calls) :
               cells[k] \in DOMAIN geometry_cache <=> oracle_calls[k].branch = "route"

(* C22: the k-th RouteStop of the assembled route has order k, its           *)
(* distance_from_previous is the matrix entry from the previous stop of the  *)
(* route (the depot for the first) to this stop, its cumulative_distance is  *)
(* the sum of distance_from_previous over the stops 1..k and never           *)
(* decreases along the route, and its geometry_to_here is what the cache     *)
(* holds for that pair, or absent when the cache has nothing for it.         *)
C22_StopFields ==
    (pc = "return_leg" /\ route_stops # <<>>) =>
        \A k \in 1..Len(route_stops) :
            LET prev_idx == IF k = 1 THEN 0 ELSE route_stops[k - 1].container_id
                this_idx == route_stops[k].container_id
            IN  /\ route_stops[k].order = k
                /\ route_stops[k].distance_from_previous = distance_matrix[prev_idx][this_idx]
                /\ route_stops[k].cumulative_distance =
                      SumSeq([m \in 1..k |-> route_stops[m].distance_from_previous])
                /\ k > 1 => route_stops[k].cumulative_distance
                                >= route_stops[k - 1].cumulative_distance
                /\ route_stops[k].geometry_to_here =
                      IF <<prev_idx, this_idx>> \in DOMAIN geometry_cache
                      THEN geometry_cache[<<prev_idx, this_idx>>] ELSE None

\* a route of two stops, both legs longer than 0, the first with a geometry
\* of the provider and the second without one
C22_Witness ==
    /\ pc = "return_leg" /\ Len(route_stops) = 2
    /\ route_stops[1].distance_from_previous > 0
    /\ route_stops[2].distance_from_previous > 0
    /\ route_stops[1].geometry_to_here # None
    /\ route_stops[2].geometry_to_here = None

(* C23: the index _select_next_container returns is one of the unvisited     *)
(* indices; a candidate at distance 0 has score 0 and is never chosen while  *)
(* another unvisited candidate has a positive score; when every score is 0   *)
(* every unvisited candidate can be chosen, so the construction always has a *)
(* next stop to take and never gets stuck.                                   *)
C23_ScoresZero(idx) == ~ScorePositive(current_idx, idx, pheromones, distance_matrix)
C23_Selecting == pc = "construct" /\ unvisited # <<>>
C23_Selection ==
    /\ [](C23_Selecting =>
            LET choices == SelectNextContainer(current_idx, unvisited, pheromones,
                                               distance_matrix)
            IN  /\ choices # {}
                /\ choices \subseteq Range(unvisited)
                /\ \A idx \in Range(unvisited) :
                      distance_matrix[current_idx][idx] = 0 => C23_ScoresZero(idx)
                /\ (\A idx \in Range(unvisited) : C23_ScoresZero(idx)) =>
                      choices = Range(unvisited))
    /\ [][C23_Selecting =>
            /\ current_idx' \in Range(unvisited)
            /\ tour' = Append(tour, current_idx' - 1)
            /\ Len(unvisited') = Len(unvisited) - 1
            /\ C23_ScoresZero(current_idx') =>
                  \A idx \in Range(unvisited) : C23_ScoresZero(idx)]_vars

\* an ant at the depot took the stop at a positive distance and left the
\* stop at distance 0 for later
C23_Witness ==
    /\ pc = "construct"
    /\ Len(tour) = 1 /\ Len(unvisited) = 1
    /\ distance_matrix[0][tour[1] + 1] > 0
    /\ distance_matrix[0][unvisited[1]] = 0

(* C24: each reversal of _two_opt is applied to the first pair (i, j), in   *)
(* the scan order i ascending then j ascending, that passes the improvement  *)
(* test on the current path; the scan then restarts from i = 1 on the new    *)
(* path, so no later pair of the interrupted scan is examined or applied:    *)
(* one step reverses exactly one segment, that of the first passing pair.    *)
C24_Pairs(pth) ==
    {ij \in (1..(Len(pth) - 3)) \X (2..(Len(pth) - 2)) : ij[1] < ij[2]}
C24_Before(a, b) == a[1] < b[1] \/ (a[1] = b[1] /\ a[2] < b[2])
C24_Reversed(pth, i, j) ==
    [k \in 1..Len(pth) |-> IF i + 1 <= k /\ k <= j + 1 THEN pth[i + j + 2 - k] ELSE pth[k]]
C24_FirstPairReversed ==
    [][(pc = "two_opt" /\ pc' = "two_opt") =>
          \E ij \in C24_Pairs(path) :
             /\ Improves(path, distance_matrix, ij[1], ij[2])
             /\ \A other \in C24_Pairs(path) :
                   C24_Before(other, ij) =>
                       ~Improves(path, distance_matrix, other[1], other[2])
             /\ path' = C24_Reversed(path, ij[1], ij[2])]_vars

\* a path one reversal away from the ant's tour, when a later pair of that
\* scan passed the test too and was left alone
C24_Witness ==
    /\ pc = "two_opt"
    /\ \E ij \in C24_Pairs(path) :
          LET start == ClosedPath(tour) IN
          /\ path = C24_Reversed(start, ij[1], ij[2])
          /\ Improves(start, distance_matrix, ij[1], ij[2])
          /\ \E later \in C24_Pairs(path) :
                /\ C24_Before(ij, later)
                /\ Improves(start, distance_matrix, later[1], later[2])
                /\ C24_Reversed(start, later[1], later[2]) # path

(* C25: every (tour, cost) pair recorded for an ant, and the all-time-best   *)
(* pair, has as cost the sum of the matrix entries along the closed path     *)
(* depot, tour, depot of that same tour, as recomputed after 2-opt, and the  *)
(* cost is never negative.                                                   *)
C25_ClosedCost(t) ==
    distance_matrix[0][t[1] + 1]
        + SumSeq([k \in 1..(Len(t) - 1) |-> distance_matrix[t[k] + 1][t[k + 1] + 1]])
        + distance_matrix[t[Len(t)] + 1][0]
C25_CostMatchesTour ==
    /\ \A k \in 1..Len(iteration_tours) :
          /\ iteration_tours[k][2] = C25_ClosedCost(iteration_tours[k][1])
          /\ iteration_tours[k][2] >= 0
    /\ global_best_tour # None =>
          /\ global_best_tour[2] = C25_ClosedCost(global_best_tour[1])
          /\ global_best_tour[2] >= 0
          /\ global_best_distance = Finite(global_best_tour[2])

\* the pair recorded for an ant whose tour 2-opt changed, with a cost other
\* than the one the construction had summed, while an all-time best is held
C25_Witness ==
    /\ pc = "ant" /\ iteration_tours # <<>>
    /\ global_best_tour # None
    /\ iteration_tours[Len(iteration_tours)][1] # tour
    /\ iteration_tours[Len(iteration_tours)][2] # distance
    /\ iteration_tours[Len(iteration_tours)][2] > 0

(* C26: the distance matrix and the geometry cache are written only by       *)
(* _build_distance_matrix: once the build is over, no step of the colony     *)
(* (ant construction, 2-opt, selection of the best, pheromone update), of    *)
(* the assembly or of optimize_route's return changes either of them.        *)
C26_MatrixFrozenAfterBuild ==
    [][pc \notin {"call", "build"} =>
          /\ distance_matrix' = distance_matrix
          /\ geometry_cache' = geometry_cache]_vars

\* a call that has returned a route of two stops after all iterations, with
\* the geometries of the build still in the cache
C26_Witness ==
    /\ pc = "done" /\ Len(route_stops) = 2
    /\ iteration = NumIterations
    /\ DOMAIN geometry_cache # {}
    /\ \E k \in 1..Len(oracle_calls) : oracle_calls[k].branch = "route"

(* C27 as claimed: in every RouteResult optimize_route returns,              *)
(* total_containers equals the number of RouteStops in stops and equals the  *)
(* lesser of the number of input stops and the vehicle capacity.             *)
C27_TotalIsStopCount ==
    result # None =>
        /\ result[1].total_containers = Len(result[1].stops)
        /\ result[1].total_containers = Min(Len(containers), vehicle_capacity)

(* C28: for every non-empty stop set and every matrix of finite non-negative *)
(* entries, an all-time-best tour is held from the end of the first          *)
(* iteration onward, so the assembly never takes the "ACO failed to find a   *)
(* tour" branch and the route is never empty.                                *)
C28_BestDefined ==
    /\ (pc = "update"
        \/ (pc \in {"iteration", "ant", "construct", "two_opt", "best"} /\ iteration >= 1)
        \/ pc = "assemble") =>
          /\ global_best_tour # None
          /\ ~global_best_distance.inf
    /\ (pc \in {"return_leg", "done"} /\ containers_to_route # <<>>) =>
          Len(route_stops) = Len(containers_to_route)

\* the end of a first iteration whose best tour costs 0: still below the
\* initial infinite best, so it is held as the all-time best
C28_Witness ==
    /\ pc = "update" /\ iteration = 0
    /\ global_best_tour # None
    /\ global_best_tour[2] = 0
    /\ Len(containers_to_route) = 2

(* C29: _update_pheromones never divides by zero.  When the iteration-best   *)
(* cost is 0 its deposit is skipped; when the all-time-best cost is 0, or    *)
(* there is no all-time best, the elitist deposit is skipped; an entry that  *)
(* only skipped deposits would have reached is only evaporated, and every    *)
(* entry stays a number (a fraction with a positive denominator).            *)
C29_Edge(a, b, t) ==
    \/ a = 0 /\ b = t[1] + 1
    \/ a = t[Len(t)] + 1 /\ b = 0
    \/ \E k \in 1..(Len(t) - 1) : a = t[k] + 1 /\ b = t[k + 1] + 1
C29_NoDivisionByZero ==
    [][iteration' = iteration + 1 =>
          LET best == iteration_tours'[1]
              global == global_best_tour'
              best_skipped == best[2] = 0
              elite_skipped == IF global = None THEN TRUE ELSE global[2] = 0
          IN  \A a \in DOMAIN pheromones : \A b \in DOMAIN pheromones[a] :
                 LET evaporated == RatMul(OneMinusRho, pheromones[a][b])
                     of_best == IF ~best_skipped /\ C29_Edge(a, b, best[1])
                                THEN Rat(ACO_Q, best[2]) ELSE <<0, 1>>
                     of_elite == IF ~elite_skipped /\ C29_Edge(a, b, global[1])
                                 THEN Rat(ACO_ELITE_WEIGHT * ACO_Q, global[2]) ELSE <<0, 1>>
                 IN  /\ pheromones'[a][b][2] > 0
                     /\ pheromones'[a][b] = RatAdd(RatAdd(evaporated, of_best), of_elite)]_vars

\* after one update with an iteration best of cost 0 and no all-time best:
\* every entry was only evaporated
C29_Witness ==
    /\ pc = "update_pheromones" /\ iteration = 1
    /\ iteration_tours[1][2] = 0
    /\ global_best_tour = None
    /\ \A a \in DOMAIN pheromones : \A b \in DOMAIN pheromones[a] :
          pheromones[a][b] = RatMul(OneMinusRho, ACO_INITIAL_PHEROMONE)

(* C30: extract_routes_for_vehicle, scanning a vehicle's time-ordered GPS    *)
(* events, emits a route only for an ignition-on event followed by the first *)
(* later ignition-off event: the points of every emitted route are the       *)
(* events from an ignition-on event to the ignition-off event that closes    *)
(* it, with no ignition event in between; events seen while no route is open *)
(* are in no route; an ignition-on seen while a route is open discards the   *)
(* open route and starts a new one; an ignition-off with no open route       *)
(* emits nothing.                                                            *)
C30_IsIgnition(k) == df_vehicle[k].Aciklama \in {IGNITION_ON, IGNITION_OFF}
C30_Points(k, m) ==
    [x \in 1..(m - k + 1) |->
        [lat |-> df_vehicle[k + x - 1].Enlem, lon |-> df_vehicle[k + x - 1].Boylam,
         timestamp |-> df_vehicle[k + x - 1].timestamp]]
C30_OpenedAt(k, m) ==
    /\ df_vehicle[k].Aciklama = IGNITION_ON
    /\ \A x \in (k + 1)..(m - 1) : ~C30_IsIgnition(x)
C30_RoutesAreIgnitionPairs ==
    /\ [](/\ \A r \in 1..Len(routes) :
               \E k \in 1..row : \E m \in (k + 1)..row :
                  /\ C30_OpenedAt(k, m)
                  /\ df_vehicle[m].Aciklama = IGNITION_OFF
                  /\ routes[r].gps_points = C30_Points(k, m)
                  /\ routes[r].start_time = df_vehicle[k].timestamp
                  /\ routes[r].end_time = df_vehicle[m].timestamp
          /\ \A r \in 1..(Len(routes) - 1) : routes[r].end_time < routes[r + 1].start_time
          /\ current_route # None =>
                \E k \in 1..row :
                   /\ C30_OpenedAt(k, row + 1)
                   /\ current_route[1].gps_points = C30_Points(k, row)
                   /\ \A r \in 1..Len(routes) : routes[r].end_time < df_vehicle[k].timestamp)
    /\ [][row' = row + 1 =>
            LET event == df_vehicle[row + 1] IN
            /\ (event.Aciklama = IGNITION_OFF /\ current_route = None) =>
                  routes' = routes /\ current_route' = None
            /\ (~C30_IsIgnition(row + 1) /\ current_route = None) =>
                  routes' = routes /\ current_route' = None
            /\ event.Aciklama = IGNITION_ON =>
                  /\ routes' = routes
                  /\ current_route' # None
                  /\ current_route'[1].gps_points = C30_Points(row + 1, row + 1)
            /\ routes' # routes =>
                  /\ event.Aciklama = IGNITION_OFF /\ current_route # None
                  /\ Len(routes') = Len(routes) + 1
                  /\ SubSeq(routes', 1, Len(routes)) = routes]_vars

\* the scan of on, on, off, off has returned one route: it starts at the
\* second ignition-on, the first was discarded, and the last ignition-off
\* found no open route
C30_Witness ==
    /\ pc = "returned"
    /\ [k \in 1..Len(df_vehicle) |-> df_vehicle[k].Aciklama]
          = <<IGNITION_ON, IGNITION_ON, IGNITION_OFF, IGNITION_OFF>>
    /\ Len(routes) = 1
    /\ routes[1].start_time = df_vehicle[2].timestamp
    /\ routes[1].end_time = df_vehicle[3].timestamp

====
